---- MODULE Spec2Model ----
(***************************************************************************)
(* Model of the CSV cleaning / filtering pipeline of csvdatafilter:        *)
(*   clean_data.py        detect_csv_separator, find_footer_start,         *)
(*                        clean_csv                                        *)
(*   filter_instagram.py  normalize_text, classify_gender,                 *)
(*                        filter_instagram_data, preprocess_csv, filter_csv*)
(*   bot.py               confirm_process (the caller of filter_csv)       *)
(*                                                                         *)
(* Text is modelled as text.  A string handled character by character      *)
(* (the classifier's input) is a sequence of one-character strings; the    *)
(* stylized Unicode letterforms of normalize_text are written "sc_a",      *)
(* "sc_n", ... (small capital a, n, ...), a Cyrillic letter "cy_ya".       *)
(* A line of a CSV file is a sequence of atoms: the two delimiter          *)
(* characters "," and ";" and content atoms (a column name, a name, a      *)
(* footer phrase), so that splitting a line on a delimiter and joining     *)
(* fields with a delimiter are computed, not assumed.                      *)
(***************************************************************************)
EXTENDS Integers, Sequences, FiniteSets, TLC

VARIABLES
    mode,                    \* which entry point this run exercises
    pc,                      \* position of the running operation
    username, fullname,      \* arguments of classify_gender
    MALE_NAMES_EXCEPTIONS,   \* word lists loaded at import time
    FEMALE_BUSINESS_KEYWORDS,
    FEMALE_NAMES,
    classification,          \* result of the last classify_gender call
    input_exists,            \* the input path names a file
    input_file,              \* the lines of the input file
    cleaned,                 \* what clean_csv returned (or raised)
    cleaned_file,            \* the lines of the intermediate cleaned file
    recleaned,               \* what a second clean_csv returned (or raised)
    sep,                     \* sep of filter_instagram_data
    fieldnames,              \* reader.fieldnames
    line_no,                 \* lines the reader has consumed
    output_exists,           \* the output path names a file
    output_file,             \* the lines written to the output file
    total_processed,
    removed_count,
    reported,                \* what filter_instagram_data printed at its end
    stats,                   \* what filter_csv gave its caller
    replies                  \* what confirm_process sent to the chat

classifier_vars == <<username, fullname, MALE_NAMES_EXCEPTIONS,
                     FEMALE_BUSINESS_KEYWORDS, FEMALE_NAMES, classification>>
clean_vars == <<input_exists, input_file, cleaned, cleaned_file, recleaned>>
filter_vars == <<sep, fieldnames, line_no, output_exists, output_file,
                 total_processed, removed_count, reported, stats, replies>>

vars == <<mode, pc, classifier_vars, clean_vars, filter_vars>>

-----------------------------------------------------------------------------
(* Bounds                                                                   *)

MaxUser == 4     \* longest username typed in the classifier specification
MaxFull == 1     \* longest fullname typed in the classifier specification

-----------------------------------------------------------------------------
(* Characters                                                               *)

\* str.lower() on the characters of the model alphabet; the stylized
\* letterforms are lowercase letters already and are left alone.
Lower(c) ==
    CASE c = "A" -> "a"
      [] c = "N" -> "n"
      [] OTHER -> c

LowerText(text) == [i \in 1..Len(text) |-> Lower(text[i])]

\* normalization_map, in dict order: <<stylized, replacement>>.
normalization_map == <<
    <<"sc_a", "a">>, <<"sc_b", "b">>, <<"sc_c", "c">>, <<"sc_d", "d">>,
    <<"sc_e", "e">>, <<"sc_f", "f">>, <<"sc_g", "g">>, <<"sc_h", "h">>,
    <<"sc_i", "i">>, <<"sc_j", "j">>, <<"sc_k", "k">>, <<"sc_l", "l">>,
    <<"sc_m", "m">>, <<"sc_n", "n">>, <<"sc_o", "o">>, <<"sc_p", "p">>,
    <<"sc_q", "q">>, <<"sc_r", "r">>, <<"sc_s", "s">>, <<"sc_t", "t">>,
    <<"sc_u", "u">>, <<"sc_v", "v">>, <<"sc_w", "w">>, <<"x", "x">>,
    <<"sc_y", "y">>, <<"sc_z", "z">> >>

\* str.replace(char, replacement) for a one-character pattern.
Replace(text, char, replacement) ==
    [i \in 1..Len(text) |-> IF text[i] = char THEN replacement ELSE text[i]]

RECURSIVE NormalizeFrom(_, _)
NormalizeFrom(text, k) ==
    IF k > Len(normalization_map) THEN text
    ELSE NormalizeFrom(Replace(text, normalization_map[k][1],
                               normalization_map[k][2]), k + 1)

\* A normalize_text whose table lacks its first entry.
normalize_text_without_first_entry(text) == NormalizeFrom(text, 2)

\* normalize_text: one replace per entry of the map, in order.
normalize_text(text) == NormalizeFrom(text, 1)

\* The character class [a-z] and the Cyrillic letters of the regex.
LatinLower == {"a", "b", "c", "d", "e", "f", "g", "h", "i", "j", "k", "l",
               "m", "n", "o", "p", "q", "r", "s", "t", "u", "v", "w", "x",
               "y", "z"}
CyrillicLower == {"cy_a", "cy_ya", "cy_n"}
IsWordChar(c) == c \in LatinLower \cup CyrillicLower

\* re.sub(r'[^a-z...]+', ' ', text): every maximal run of other characters
\* becomes one space.
RECURSIVE ReSubFrom(_, _, _, _)
ReSubFrom(text, i, inRun, acc) ==
    IF i > Len(text) THEN acc
    ELSE IF IsWordChar(text[i])
         THEN ReSubFrom(text, i + 1, FALSE, Append(acc, text[i]))
         ELSE IF inRun THEN ReSubFrom(text, i + 1, TRUE, acc)
              ELSE ReSubFrom(text, i + 1, TRUE, Append(acc, " "))

ReSub(text) == ReSubFrom(text, 1, FALSE, <<>>)

\* set(text.split()): the set of maximal runs of non-space characters.
RECURSIVE SplitWordsFrom(_, _, _, _)
SplitWordsFrom(text, i, cur, acc) ==
    IF i > Len(text)
    THEN IF cur = <<>> THEN acc ELSE acc \cup {cur}
    ELSE IF text[i] = " "
         THEN SplitWordsFrom(text, i + 1, <<>>,
                             IF cur = <<>> THEN acc ELSE acc \cup {cur})
         ELSE SplitWordsFrom(text, i + 1, Append(cur, text[i]), acc)

SplitWords(text) == SplitWordsFrom(text, 1, <<>>, {})

\* str.strip() == '' : only whitespace.
IsBlank(text) == \A i \in 1..Len(text) : text[i] = " "

\* str.endswith
EndsWith(word, suffix) ==
    /\ Len(suffix) <= Len(word)
    /\ SubSeq(word, Len(word) - Len(suffix) + 1, Len(word)) = suffix

FEMALE_ENDINGS == {
    <<"a">>, <<"y", "a">>, <<"i", "a">>, <<"i", "n", "a">>,
    <<"o", "v", "a">>, <<"e", "v", "a">>, <<"s", "k", "a", "y", "a">>,
    <<"i", "v", "n", "a">>, <<"y", "i", "v", "n", "a">>,
    <<"o", "v", "n", "a">> }

\* parts of classify_gender: the token set of the two arguments.
Parts(u, f) == SplitWords(ReSub(normalize_text(LowerText(u \o <<" ">> \o f))))

\* A classify_gender that looks up the female names before the male
\* exceptions.
ClassifyFemaleNamesFirst(u, f, male, business, female) ==
    LET parts == Parts(u, f)
    IN  IF IsBlank(LowerText(u \o <<" ">> \o f)) THEN "keep"
        ELSE IF \E keyword \in business : keyword \in parts THEN "female"
        ELSE IF \E female_name \in female : female_name \in parts THEN "female"
        ELSE IF \E male_name \in male : male_name \in parts THEN "keep"
        ELSE IF \E part \in parts :
                    /\ Len(part) > 3
                    /\ part \notin male
                    /\ \E ending \in FEMALE_ENDINGS : EndsWith(part, ending)
             THEN "female"
        ELSE "keep"

\* A classify_gender that looks up the male exceptions before the business
\* keywords.
ClassifyMaleExceptionsFirst(u, f, male, business, female) ==
    LET parts == Parts(u, f)
    IN  IF IsBlank(LowerText(u \o <<" ">> \o f)) THEN "keep"
        ELSE IF \E male_name \in male : male_name \in parts THEN "keep"
        ELSE IF \E keyword \in business : keyword \in parts THEN "female"
        ELSE IF \E female_name \in female : female_name \in parts THEN "female"
        ELSE IF \E part \in parts :
                    /\ Len(part) > 3
                    /\ part \notin male
                    /\ \E ending \in FEMALE_ENDINGS : EndsWith(part, ending)
             THEN "female"
        ELSE "keep"

\* A classify_gender whose last-resort step asks for more than 4 characters.
ClassifyLongerThanFour(u, f, male, business, female) ==
    LET parts == Parts(u, f)
    IN  IF IsBlank(LowerText(u \o <<" ">> \o f)) THEN "keep"
        ELSE IF \E keyword \in business : keyword \in parts THEN "female"
        ELSE IF \E male_name \in male : male_name \in parts THEN "keep"
        ELSE IF \E female_name \in female : female_name \in parts THEN "female"
        ELSE IF \E part \in parts :
                    /\ Len(part) > 4
                    /\ part \notin male
                    /\ \E ending \in FEMALE_ENDINGS : EndsWith(part, ending)
             THEN "female"
        ELSE "keep"

\* classify_gender(username, fullname) with the word lists male, business,
\* female.
ClassifyWith(u, f, male, business, female) ==
    LET combined_text == LowerText(u \o <<" ">> \o f)
        normalized_text == normalize_text(combined_text)
        cleaned_text == ReSub(normalized_text)
        parts == SplitWords(cleaned_text)
    IN  IF IsBlank(combined_text) THEN "keep"
        ELSE IF \E keyword \in business : keyword \in parts THEN "female"
        ELSE IF \E male_name \in male : male_name \in parts THEN "keep"
        ELSE IF \E female_name \in female : female_name \in parts THEN "female"
        ELSE IF \E part \in parts :
                    /\ Len(part) > 3
                    /\ part \notin male
                    /\ \E ending \in FEMALE_ENDINGS : EndsWith(part, ending)
             THEN "female"
        ELSE "keep"

classify_gender(u, f) ==
    ClassifyWith(u, f, MALE_NAMES_EXCEPTIONS, FEMALE_BUSINESS_KEYWORDS,
                 FEMALE_NAMES)

-----------------------------------------------------------------------------
(* CSV text                                                                 *)
(*                                                                          *)
(* A file is a sequence of lines, a line a sequence of atoms, a field (a    *)
(* cell, a column name) the sequence of atoms between two delimiters.  The  *)
(* empty field <<>> is the empty string; in a DataFrame it is the missing   *)
(* value NaN, which pandas also reads from the text "nan".  The inputs      *)
(* contain no quote character, so no field holds the delimiter it was       *)
(* split on and to_csv never has to quote one.                              *)

Comma == ","
Semicolon == ";"
OtherDelimiter(d) == IF d = Comma THEN Semicolon ELSE Comma

\* str.count(ch)
Count(line, ch) == Cardinality({i \in 1..Len(line) : line[i] = ch})

\* detect_csv_separator: readline() of an empty file is the empty string.
detect_csv_separator(file) ==
    LET first_line == IF Len(file) = 0 THEN <<>> ELSE file[1]
        comma_count == Count(first_line, Comma)
        semicolon_count == Count(first_line, Semicolon)
    IN  IF comma_count > semicolon_count THEN Comma ELSE Semicolon

\* Splitting one line on a delimiter, as csv.reader and read_csv do: an
\* empty line has no field, any other line one field more than delimiters.
RECURSIVE SplitFrom(_, _, _, _, _)
SplitFrom(line, delim, i, cur, acc) ==
    IF i > Len(line) THEN Append(acc, cur)
    ELSE IF line[i] = delim
         THEN SplitFrom(line, delim, i + 1, <<>>, Append(acc, cur))
         ELSE SplitFrom(line, delim, i + 1, Append(cur, line[i]), acc)

SplitLine(line, delim) ==
    IF line = <<>> THEN <<>> ELSE SplitFrom(line, delim, 1, <<>>, <<>>)

\* Writing one row: the fields joined by the delimiter.
RECURSIVE JoinFrom(_, _, _)
JoinFrom(fields, delim, i) ==
    IF i > Len(fields) THEN <<>>
    ELSE IF i = Len(fields) THEN fields[i]
         ELSE fields[i] \o <<delim>> \o JoinFrom(fields, delim, i + 1)

JoinLine(fields, delim) == JoinFrom(fields, delim, 1)

NonBlankLines(file) == SelectSeq(file, LAMBDA line : line /= <<>>)

Min(a, b) == IF a <= b THEN a ELSE b

-----------------------------------------------------------------------------
(* pandas.read_csv(input_file, sep=separator, quotechar='"',               *)
(*                 skipinitialspace=True)                                   *)

NaN == <<>>

\* The texts pandas reads as a missing value (the one of the model: "nan").
ParseCell(field) == IF field = <<"nan">> THEN NaN ELSE field

UnnamedColumn == <<"Unnamed: 0", "Unnamed: 1", "Unnamed: 2", "Unnamed: 3",
                   "Unnamed: 4", "Unnamed: 5", "Unnamed: 6", "Unnamed: 7">>
DuplicateSuffix == <<".1", ".2", ".3", ".4", ".5", ".6", ".7">>

\* Column names of a header row: an empty name becomes "Unnamed: i", a
\* repeated name gets the suffix ".k" (mangle_dupe_cols).
HeaderNames(fields) ==
    LET named == [i \in 1..Len(fields) |->
                    IF fields[i] = <<>> THEN <<UnnamedColumn[i]>>
                    ELSE fields[i]]
        earlier(i) == Cardinality({j \in 1..(i - 1) : named[j] = named[i]})
    IN  [i \in 1..Len(fields) |->
            IF earlier(i) = 0 THEN named[i]
            ELSE Append(named[i], DuplicateSuffix[earlier(i)])]

PadRow(fields, n) ==
    [i \in 1..n |-> IF i <= Len(fields) THEN ParseCell(fields[i]) ELSE NaN]

\* The outcome of read_csv: kind "ok" with the columns and rows; kind
\* "EmptyDataError" for a file without a non-blank line; kind "ParserError"
\* when a row after the first data row has more fields than expected; kind
\* "index" when the first data row has more fields than the header, which
\* pandas reads as row labels (not modelled further).
ReadRows(header, body) ==
    IF body /= <<>> /\ Len(body[1]) > Len(header)
    THEN [kind |-> "index", columns |-> <<>>, rows |-> <<>>]
    ELSE IF \E i \in 1..Len(body) : Len(body[i]) > Len(header)
    THEN [kind |-> "ParserError", columns |-> <<>>, rows |-> <<>>]
    ELSE [kind |-> "ok",
          columns |-> HeaderNames(header),
          rows |-> [i \in 1..Len(body) |-> PadRow(body[i], Len(header))]]

ReadLines(lines, delim) ==
    IF lines = <<>>
    THEN [kind |-> "EmptyDataError", columns |-> <<>>, rows |-> <<>>]
    ELSE ReadRows(SplitLine(lines[1], delim),
                  [i \in 1..(Len(lines) - 1) |-> SplitLine(lines[i + 1], delim)])

read_csv(file, delim) == ReadLines(NonBlankLines(file), delim)

\* DataFrame.to_csv(path, index=False, sep=sep): the header line and one
\* line per row; a missing value and the empty string are both written
\* empty.
to_csv(columns, rows, delim) ==
    <<JoinLine(columns, delim)>> \o
        [i \in 1..Len(rows) |-> JoinLine(rows[i], delim)]

-----------------------------------------------------------------------------
(* clean_data.py: find_footer_start and clean_csv                          *)

\* str.lower() of an atom of the model vocabulary.
LowerAtom(a) ==
    CASE a = "Found profiles count:" -> "found profiles count:"
      [] a = "IG DM BOT:" -> "ig dm bot:"
      [] a = "MAX ON FREE PLAN" -> "max on free plan"
      [] a = "SocialDeck.AI" -> "socialdeck.ai"
      [] OTHER -> a

\* <<atom, pattern>>: the pattern occurs in the text of the atom.  The atoms
\* of the model vocabulary are such that no pattern straddles two atoms.
Occurs == {
    <<"Found profiles count:", "Found profiles count:">>,
    <<"found profiles count:", "found profiles count:">>,
    <<"IG DM BOT:", "IG DM BOT:">>,
    <<"ig dm bot:", "ig dm bot:">>,
    <<"max on free plan", "max on free plan">>,
    <<"MAX ON FREE PLAN", "MAX ON FREE PLAN">>,
    <<"profiles max on free plan", "max on free plan">>,
    <<"profiles max on free plan", "profiles max on free plan">>,
    <<"socialdeck.ai", "socialdeck.ai">>,
    <<"SocialDeck.AI", "SocialDeck.AI">>,
    <<"https://socialdeck.ai", "socialdeck.ai">>,
    <<"https://socialdeck.ai", "https://socialdeck.ai">> }

\* pattern in text
Contains(text, pattern) ==
    \E i \in 1..Len(text) : <<text[i], pattern>> \in Occurs

\* pattern in text.lower(), and str.contains(pattern, case=False)
ContainsNoCase(text, pattern) ==
    \E i \in 1..Len(text) :
        <<LowerAtom(text[i]), LowerAtom(pattern)>> \in Occurs

StartsWith(text, prefix) == Len(text) >= 1 /\ text[1] = prefix

\* str(value): the missing value prints as "nan".
Str(cell) == IF cell = NaN THEN <<"nan">> ELSE cell

\* The candidate test of find_footer_start on str(row.iloc[0]).strip().
IsFooterIndicator(first_col_str) ==
    \/ StartsWith(first_col_str, "Found profiles count:")
    \/ first_col_str = <<"IG DM BOT:">>
    \/ Contains(first_col_str, "profiles max on free plan")
    \/ Contains(first_col_str, "max on free plan")
    \/ first_col_str = <<>>
    \/ first_col_str = <<"nan">>

\* The confirmation test of find_footer_start on str(df.iloc[j, 0]).strip().
IsFooterConfirmation(check_str) ==
    \/ StartsWith(check_str, "Found profiles count:")
    \/ check_str = <<"IG DM BOT:">>
    \/ Contains(check_str, "profiles max on free plan")
    \/ Contains(check_str, "max on free plan")
    \/ check_str \in {<<>>, <<"nan">>}
    \/ ContainsNoCase(check_str, "socialdeck.ai")

None == -1

\* The rows j the confirmation loop of candidate i looks at:
\* range(i, min(i + 5, len(df))), 0-based.
ConfirmationRange(i, n) == i..(Min(i + 5, n) - 1)

\* footer_confirmed for the candidate row i (0-based).
FooterConfirmed(rows, i) ==
    \E j \in ConfirmationRange(i, Len(rows)) :
        IsFooterConfirmation(Str(rows[j + 1][1]))

\* find_footer_start(df): the 0-based index of the first confirmed
\* candidate, scanning top to bottom; None when there is none.
RECURSIVE FindFooterFrom(_, _)
FindFooterFrom(rows, i) ==
    IF i >= Len(rows) THEN None
    ELSE IF IsFooterIndicator(Str(rows[i + 1][1])) /\ FooterConfirmed(rows, i)
         THEN i
         ELSE FindFooterFrom(rows, i + 1)

find_footer_start(rows) == FindFooterFrom(rows, 0)

footer_patterns == <<"Found profiles count:", "IG DM BOT:", "socialdeck.ai",
                     "https://socialdeck.ai", "profiles max on free plan",
                     "max on free plan">>

columns_to_remove == {<<"profileUrl">>, <<"avatarUrl">>, <<"isVerified">>,
                      <<"followedByYou">>}

\* column_rename_map, applied by DataFrame.rename to every column at once.
RenameColumn(name) ==
    CASE name = <<"userName">> -> <<"user_name">>
      [] name = <<"fullName">> -> <<"full_name">>
      [] name = <<"login">> -> <<"user_name">>
      [] name = <<"name">> -> <<"full_name">>
      [] OTHER -> name

\* The indices of a sequence that satisfy Keep, in increasing order.
RECURSIVE KeptFrom(_, _, _)
KeptFrom(n, Keep(_), i) ==
    IF i > n THEN <<>>
    ELSE IF Keep(i) THEN <<i>> \o KeptFrom(n, Keep, i + 1)
         ELSE KeptFrom(n, Keep, i + 1)

Range(f) == {f[i] : i \in DOMAIN f}

\* .astype(str).replace('0', '').replace('nan', '') on one value.
CleanName(cell) ==
    LET as_str == Str(cell)
        no_zero == IF as_str = <<"0">> THEN <<>> ELSE as_str
    IN  IF no_zero = <<"nan">> THEN <<>> ELSE no_zero

\* A truncation that keeps the candidate row and all rows after it.
TruncateNever(rows, footer_start) == rows

\* The rows of a table cut at the footer start (df.iloc[:footer_start]).
TruncateAt(rows, footer_start) ==
    IF footer_start /= None THEN SubSeq(rows, 1, footer_start) ELSE rows

\* A row with one of footer_patterns in its first column
\* (str.contains(pattern, case=False, na=False) on astype(str)).
HasFooterPattern(row) ==
    \E k \in 1..Len(footer_patterns) :
        ContainsNoCase(Str(row[1]), footer_patterns[k])

\* The sweep over footer_patterns: df = df[~mask] for every pattern.
SweepFooterPatterns(rows) ==
    SelectSeq(rows, LAMBDA row : ~HasFooterPattern(row))

\* df.dropna(how='all')
dropna(rows) ==
    SelectSeq(rows, LAMBDA row : \E c \in 1..Len(row) : row[c] /= NaN)

\* The first column is neither '' nor 'nan'.
DropUnnamedRows(rows) ==
    SelectSeq(rows, LAMBDA row : Str(row[1]) \notin {<<>>, <<"nan">>})

\* The row filters of clean_csv, in the order of the code.
CleanRows(rows) == DropUnnamedRows(dropna(SweepFooterPatterns(rows)))

\* The positions of the columns that are not in columns_to_remove.
RemainingColumns(columns) ==
    KeptFrom(Len(columns), LAMBDA c : columns[c] \notin columns_to_remove, 1)

\* df.drop(columns=existing_columns_to_remove)
DropColumns(columns, rows) ==
    LET kept == RemainingColumns(columns)
    IN  [columns |-> [c \in 1..Len(kept) |-> columns[kept[c]]],
         rows |-> [i \in 1..Len(rows) |->
                      [c \in 1..Len(kept) |-> rows[i][kept[c]]]]]

\* df.rename(columns=column_rename_map)
RenameColumns(df) ==
    [columns |-> [c \in 1..Len(df.columns) |-> RenameColumn(df.columns[c])],
     rows |-> df.rows]

\* df[name] = '' when the column is missing.
AddMissingColumn(df, name) ==
    IF name \in Range(df.columns) THEN df
    ELSE [columns |-> Append(df.columns, name),
          rows |-> [i \in 1..Len(df.rows) |-> Append(df.rows[i], <<>>)]]

\* The '0' and 'nan' values of the name columns become ''.
SanitizeNames(df) ==
    [columns |-> df.columns,
     rows |-> [i \in 1..Len(df.rows) |->
                  [c \in 1..Len(df.columns) |->
                      IF df.columns[c] \in {<<"user_name">>, <<"full_name">>}
                      THEN CleanName(df.rows[i][c])
                      ELSE df.rows[i][c]]]]

WithFooterStart(df, footer_start) ==
    [columns |-> df.columns, rows |-> df.rows, footer_start |-> footer_start]

\* The steps of clean_csv after read_csv, on the columns and rows of df.
CleanTable(columns, rows0) ==
    WithFooterStart(
        SanitizeNames(
            AddMissingColumn(
                AddMissingColumn(
                    RenameColumns(
                        DropColumns(columns,
                            CleanRows(
                                TruncateAt(rows0, find_footer_start(rows0))))),
                    <<"user_name">>),
                <<"full_name">>)),
        find_footer_start(rows0))

\* What clean_csv returns for the table read_csv gave.
CleanRead(df, separator) ==
    IF df.kind /= "ok"
    THEN [kind |-> df.kind, separator |-> separator, columns |-> <<>>,
          rows |-> <<>>, footer_start |-> None]
    ELSE [kind |-> "ok", separator |-> separator] @@
         CleanTable(df.columns, df.rows)

CleanWith(file, separator) == CleanRead(read_csv(file, separator), separator)

\* clean_csv(input_file): the outcome kind of read_csv, the separator, the
\* cleaned columns and rows, and what find_footer_start returned.
clean_csv(file) == CleanWith(file, detect_csv_separator(file))

-----------------------------------------------------------------------------
(* State before any file has been touched                                  *)

NotRun == [kind |-> "none", separator |-> "", columns |-> <<>>,
           rows |-> <<>>, footer_start |-> None]

NothingReported == [kind |-> "none", total_processed |-> 0, removed |-> 0,
                    remaining |-> 0]

IdleFilter ==
    /\ sep = ""
    /\ fieldnames = <<>>
    /\ line_no = 0
    /\ output_exists = FALSE
    /\ output_file = <<>>
    /\ total_processed = 0
    /\ removed_count = 0
    /\ reported = NothingReported
    /\ stats = "pending"
    /\ replies = {}

IdleFiles ==
    /\ input_exists = FALSE
    /\ input_file = <<>>
    /\ cleaned = NotRun
    /\ cleaned_file = <<>>
    /\ recleaned = NotRun
    /\ IdleFilter

-----------------------------------------------------------------------------
(* Classifier specification: the word lists are any lists over a small     *)
(* vocabulary, the arguments are typed character by character, and         *)
(* classify_gender is applied to them.                                     *)

TypedChars == {"a", "N", "sc_a", "_"}
Vocabulary == { <<"a">>, <<"n", "a">> }

InitClassify ==
    /\ mode = "classify"
    /\ pc = "typing"
    /\ username = <<>>
    /\ fullname = <<>>
    /\ MALE_NAMES_EXCEPTIONS \in SUBSET Vocabulary
    /\ FEMALE_BUSINESS_KEYWORDS \in SUBSET Vocabulary
    /\ FEMALE_NAMES \in SUBSET Vocabulary
    /\ classification = "none"
    /\ IdleFiles

TypeUsername ==
    /\ mode = "classify"
    /\ pc = "typing"
    /\ fullname = <<>>
    /\ Len(username) < MaxUser
    /\ \E c \in TypedChars : username' = Append(username, c)
    /\ UNCHANGED <<mode, pc, fullname, MALE_NAMES_EXCEPTIONS,
                   FEMALE_BUSINESS_KEYWORDS, FEMALE_NAMES, classification,
                   clean_vars, filter_vars>>

TypeFullname ==
    /\ mode = "classify"
    /\ pc = "typing"
    /\ Len(fullname) < MaxFull
    /\ \E c \in TypedChars : fullname' = Append(fullname, c)
    /\ UNCHANGED <<mode, pc, username, MALE_NAMES_EXCEPTIONS,
                   FEMALE_BUSINESS_KEYWORDS, FEMALE_NAMES, classification,
                   clean_vars, filter_vars>>

Classify ==
    /\ mode = "classify"
    /\ pc = "typing"
    /\ classification' = classify_gender(username, fullname)
    /\ pc' = "classified"
    /\ UNCHANGED <<mode, username, fullname, MALE_NAMES_EXCEPTIONS,
                   FEMALE_BUSINESS_KEYWORDS, FEMALE_NAMES,
                   clean_vars, filter_vars>>

NextClassify == TypeUsername \/ TypeFullname \/ Classify

SpecClassify == InitClassify /\ [][NextClassify]_vars

-----------------------------------------------------------------------------
(* Input files                                                              *)

\* All sequences of at most n elements of S.
RECURSIVE SeqsUpTo(_, _)
SeqsUpTo(S, n) ==
    IF n = 0 THEN {<<>>}
    ELSE LET shorter == SeqsUpTo(S, n - 1)
         IN  shorter \cup {Append(q, x) : q \in shorter, x \in S}

\* The sequences of at most n distinct elements of S.
DistinctSeqsUpTo(S, n) ==
    {q \in SeqsUpTo(S, n) :
        \A i, j \in 1..Len(q) : i /= j => q[i] /= q[j]}

\* A column name that holds k times the delimiter the file is not written
\* with.
EmbeddedName(d) ==
    IF d = Comma THEN <<"a", Semicolon, "b", Semicolon, "c">>
    ELSE <<"a", Comma, "b", Comma, "c", Comma, "d">>

\* A value that holds the other delimiter four times.
EmbeddedValue(d) ==
    LET o == OtherDelimiter(d)
    IN  <<"x", o, "x", o, "x", o, "x", o, "x">>

\* A file written with the delimiter d: a header row and the rows, each a
\* sequence of fields.
FileOf(header, rows, d) == to_csv(header, rows, d)

\* The input files of the model: pandas reads no row labels from them (the
\* first data row has no more fields than the header row).
ReadsWithoutRowLabels(file) ==
    read_csv(file, detect_csv_separator(file)).kind /= "index"

-----------------------------------------------------------------------------
(* Cleaner specification: clean_csv on an input file, the cleaned table     *)
(* written with to_csv (as main of clean_data.py and preprocess_csv do),    *)
(* and clean_csv again on the file so written.                              *)

MaxRows == 6        \* most data rows of a file of the footer family
MaxMixedRows == 3   \* most data rows of a file of the mixed footer family
MaxCols == 4        \* most columns of a file of the column family

\* Rows of an export with the columns userName, fullName.
RealRowA == << <<"ivan">>, <<"x">> >>
RealRowB == << <<"anna">>, <<"x">> >>
BlankFirstRow == << <<>>, <<"x">> >>
NanFirstRow == << <<"nan">>, <<"x">> >>
FoundRow == << <<"Found profiles count:", " 12">> >>
BrandRow == << <<"visit">>, <<"https://socialdeck.ai">> >>
BrandFirstRow == << <<"SocialDeck.AI">> >>
BotRow == << <<"IG DM BOT:">> >>
PlanRow == << <<"1000 ", "profiles max on free plan">> >>
UpperPlanRow == << <<"MAX ON FREE PLAN">>, <<"x">> >>

FooterFamilyRows == {RealRowA, RealRowB, BlankFirstRow, FoundRow, BrandRow}
MixedFamilyRows == FooterFamilyRows \cup
    {NanFirstRow, BrandFirstRow, BotRow, PlanRow, UpperPlanRow}

ColumnFamilyNames(d) ==
    {<<"userName">>, <<"login">>, <<"fullName">>, <<"profileUrl">>,
     <<"id">>, EmbeddedName(d)}

\* The rows of the column family: every cell "ivan", every cell "0", or an
\* embedded value followed by "ivan" cells.
ColumnFamilyRows(n, d) ==
    { [c \in 1..n |-> <<"ivan">>],
      [c \in 1..n |-> <<"0">>],
      [c \in 1..n |-> IF c = 1 THEN EmbeddedValue(d) ELSE <<"ivan">>] }

CleanInputs ==
    {FileOf(<< <<"userName">>, <<"fullName">> >>, rows, Comma) :
        rows \in SeqsUpTo(FooterFamilyRows, MaxRows)}
    \cup
    {FileOf(<< <<"userName">>, <<"fullName">> >>, rows, Comma) :
        rows \in SeqsUpTo(MixedFamilyRows, MaxMixedRows)}
    \cup
    UNION { UNION { {FileOf(header, rows, d) :
                        rows \in SeqsUpTo(ColumnFamilyRows(Len(header), d), 2)} :
                    header \in DistinctSeqsUpTo(ColumnFamilyNames(d), MaxCols)
                               \ {<<>>} } :
            d \in {Comma, Semicolon} }

InitClean ==
    /\ mode = "clean"
    /\ pc = "start"
    /\ username = <<>>
    /\ fullname = <<>>
    /\ MALE_NAMES_EXCEPTIONS = {}
    /\ FEMALE_BUSINESS_KEYWORDS = {}
    /\ FEMALE_NAMES = {}
    /\ classification = "none"
    /\ input_exists = TRUE
    /\ input_file \in CleanInputs
    /\ ReadsWithoutRowLabels(input_file)
    /\ cleaned = NotRun
    /\ cleaned_file = <<>>
    /\ recleaned = NotRun
    /\ IdleFilter

\* clean_csv(input_file)
CleanCsv ==
    /\ mode = "clean"
    /\ pc = "start"
    /\ cleaned' = clean_csv(input_file)
    /\ pc' = IF cleaned'.kind = "ok" THEN "cleaned" ELSE "raised"
    /\ UNCHANGED <<mode, classifier_vars, input_exists, input_file,
                   cleaned_file, recleaned, filter_vars>>

\* cleaned_df.to_csv(output_file, index=False, sep=separator)
WriteCleaned ==
    /\ mode = "clean"
    /\ pc = "cleaned"
    /\ cleaned_file' = to_csv(cleaned.columns, cleaned.rows, cleaned.separator)
    /\ pc' = "written"
    /\ UNCHANGED <<mode, classifier_vars, input_exists, input_file, cleaned,
                   recleaned, filter_vars>>

\* clean_csv on the cleaned file
CleanAgain ==
    /\ mode = "clean"
    /\ pc = "written"
    /\ recleaned' = clean_csv(cleaned_file)
    /\ pc' = "recleaned"
    /\ UNCHANGED <<mode, classifier_vars, input_exists, input_file, cleaned,
                   cleaned_file, filter_vars>>

NextClean == CleanCsv \/ WriteCleaned \/ CleanAgain

SpecClean == InitClean /\ [][NextClean]_vars

-----------------------------------------------------------------------------
(* Pipeline specification: filter_csv as confirm_process calls it          *)
(* (preprocess_csv, then filter_instagram_data on the cleaned file), and    *)
(* filter_instagram_data called on a file directly.                         *)

MaxFilterRows == 2   \* most data lines of an input of the pipeline

Ivan == <<"i", "v", "a", "n">>
Anna == <<"a", "n", "n", "a">>

\* The value None of a missing field (restval), and its str().
PyNone == <<"None">>
StrOf(value) == IF value = PyNone THEN <<"N", "o", "n", "e">> ELSE value

PipelineNames(d) ==
    {<<"userName">>, <<"fullName">>, <<"profileUrl">>, <<"id">>,
     EmbeddedName(d)}

\* Rows under a header of n columns: all cells Ivan, all cells Anna, an
\* embedded value followed by Ivan cells, and a row of one cell only.
PipelineRows(n, d) ==
    { [c \in 1..n |-> Ivan],
      [c \in 1..n |-> Anna],
      [c \in 1..n |-> IF c = 1 THEN EmbeddedValue(d) ELSE Ivan],
      <<Ivan>> }

PipelineInputs ==
    UNION { UNION { {FileOf(header, rows, d) :
                        rows \in SeqsUpTo(PipelineRows(Len(header), d),
                                          MaxFilterRows)} :
                    header \in DistinctSeqsUpTo(PipelineNames(d), MaxCols) } :
            d \in {Comma, Semicolon} }

\* Files handed to filter_instagram_data directly: with or without a header
\* row, with short, long and blank lines.
DirectRows == {<<Ivan, Ivan>>, <<Anna, Anna>>, <<Ivan>>, <<Ivan, Ivan, Ivan>>,
               <<>>}

DirectInputs ==
    {<<>>} \cup
    UNION { UNION { {FileOf(header, rows, d) :
                        rows \in SeqsUpTo(DirectRows, MaxFilterRows)} :
                    header \in DistinctSeqsUpTo(
                        {<<"user_name">>, <<"full_name">>, <<"id">>}, 2) } :
            d \in {Comma, Semicolon} }

Init ==
    /\ pc = "start"
    /\ username = <<>>
    /\ fullname = <<>>
    /\ MALE_NAMES_EXCEPTIONS = {Ivan}
    /\ FEMALE_BUSINESS_KEYWORDS = {}
    /\ FEMALE_NAMES = {Anna}
    /\ classification = "none"
    /\ \/ /\ mode = "filter_csv"
          /\ \/ input_exists = TRUE /\ input_file \in PipelineInputs
                                    /\ ReadsWithoutRowLabels(input_file)
             \/ input_exists = FALSE /\ input_file = <<>>
       \/ /\ mode = "filter_instagram_data"
          /\ \/ input_exists = TRUE /\ input_file \in DirectInputs
             \/ input_exists = FALSE /\ input_file = <<>>
    /\ cleaned = NotRun
    /\ cleaned_file = <<>>
    /\ recleaned = NotRun
    /\ IdleFilter

\* preprocess_csv(input_path): clean_csv, then to_csv into a temporary
\* directory.  An exception of clean_csv leaves filter_csv.
Preprocess ==
    /\ mode = "filter_csv"
    /\ pc = "start"
    /\ IF ~input_exists
       THEN /\ cleaned' = [NotRun EXCEPT !.kind = "FileNotFoundError"]
            /\ stats' = "raised"
            /\ pc' = "done"
            /\ UNCHANGED cleaned_file
       ELSE /\ cleaned' = clean_csv(input_file)
            /\ IF cleaned'.kind = "ok"
               THEN /\ cleaned_file' = to_csv(cleaned'.columns, cleaned'.rows,
                                              cleaned'.separator)
                    /\ pc' = "filter"
                    /\ UNCHANGED stats
               ELSE /\ stats' = "raised"
                    /\ pc' = "done"
                    /\ UNCHANGED cleaned_file
    /\ UNCHANGED <<mode, classifier_vars, input_exists, input_file, recleaned,
                   sep, fieldnames, line_no, output_exists, output_file,
                   total_processed, removed_count, reported, replies>>

\* The file filter_instagram_data reads.
FilterInput == IF mode = "filter_csv" THEN cleaned_file ELSE input_file
FilterInputExists == IF mode = "filter_csv" THEN TRUE ELSE input_exists

\* filter_instagram_data up to the row loop: the separator, both files
\* opened, the header check, the header written.
FilterOpen ==
    /\ \/ mode = "filter_csv" /\ pc = "filter"
       \/ mode = "filter_instagram_data" /\ pc = "start"
    /\ IF ~FilterInputExists
       THEN \* except FileNotFoundError
            /\ reported' = [NothingReported EXCEPT !.kind = "not_found"]
            /\ pc' = "returned"
            /\ UNCHANGED <<sep, fieldnames, line_no, output_exists,
                           output_file>>
       ELSE /\ sep' = detect_csv_separator(FilterInput)
            /\ output_exists' = TRUE
            /\ fieldnames' = IF FilterInput = <<>> THEN <<>>
                             ELSE SplitLine(FilterInput[1], sep')
            /\ IF fieldnames' = <<>>
               THEN \* "Error: Could not read headers"
                    /\ reported' = [NothingReported EXCEPT !.kind = "no_headers"]
                    /\ pc' = "returned"
                    /\ output_file' = <<>>
                    /\ UNCHANGED line_no
               ELSE /\ output_file' = <<JoinLine(fieldnames', sep')>>
                    /\ line_no' = 1
                    /\ pc' = "loop"
                    /\ UNCHANGED reported
    /\ UNCHANGED <<mode, classifier_vars, clean_vars, total_processed,
                   removed_count, stats, replies>>

\* The lines the reader has still to yield a row for (blank lines yield
\* none).
PendingLines ==
    {k \in (line_no + 1)..Len(FilterInput) : FilterInput[k] /= <<>>}

NextLine == CHOOSE k \in PendingLines : \A m \in PendingLines : k <= m

\* row.get(name, default) of the dict DictReader builds from the fields of a
\* line: the last column of that name wins; a column beyond the fields of a
\* short line holds None.
RowGet(names, fields, name, default) ==
    LET places == {c \in 1..Len(names) : names[c] = name}
        last == CHOOSE c \in places : \A m \in places : m <= c
    IN  IF places = {} THEN default
        ELSE IF last <= Len(fields) THEN fields[last] ELSE PyNone

\* The line DictWriter.writerow writes: one value per field name, None
\* written empty.
WrittenRow(names, fields, delim) ==
    JoinLine([c \in 1..Len(names) |->
                 LET value == RowGet(names, fields, names[c], <<>>)
                 IN  IF value = PyNone THEN <<>> ELSE value],
             delim)

\* A count of removed rows that is never incremented.
RemovedNeverCounted(count, verdict) == count

\* removed_count after a row with this verdict.
RemovedAfter(count, verdict) ==
    IF verdict = "female" THEN count + 1 ELSE count

\* One iteration of the row loop.  writerow raises ValueError on a row with
\* more fields than field names; except Exception reports it and returns.
FilterRow ==
    /\ mode \in {"filter_csv", "filter_instagram_data"}
    /\ pc = "loop"
    /\ PendingLines /= {}
    /\ LET fields == SplitLine(FilterInput[NextLine], sep)
           user == RowGet(fieldnames, fields, <<"user_name">>, <<>>)
           full == RowGet(fieldnames, fields, <<"full_name">>, <<>>)
           verdict == classify_gender(StrOf(user), StrOf(full))
       IN  /\ line_no' = NextLine
           /\ total_processed' = total_processed + 1
           /\ username' = StrOf(user)
           /\ fullname' = StrOf(full)
           /\ classification' = verdict
           /\ IF verdict = "female"
              THEN UNCHANGED <<output_file, reported, pc>>
              ELSE IF Len(fields) > Len(fieldnames)
              THEN /\ reported' = [NothingReported EXCEPT !.kind = "unexpected"]
                   /\ pc' = "returned"
                   /\ UNCHANGED output_file
              ELSE /\ output_file' =
                        Append(output_file, WrittenRow(fieldnames, fields, sep))
                   /\ UNCHANGED <<reported, pc>>
           /\ removed_count' = RemovedAfter(removed_count, verdict)
    /\ UNCHANGED <<mode, MALE_NAMES_EXCEPTIONS, FEMALE_BUSINESS_KEYWORDS,
                   FEMALE_NAMES, clean_vars, sep, fieldnames, output_exists,
                   stats, replies>>

\* The end of the row loop: the counts are printed.
FilterEnd ==
    /\ mode \in {"filter_csv", "filter_instagram_data"}
    /\ pc = "loop"
    /\ PendingLines = {}
    /\ reported' = [kind |-> "stats",
                    total_processed |-> total_processed,
                    removed |-> removed_count,
                    remaining |-> total_processed - removed_count]
    /\ pc' = "returned"
    /\ UNCHANGED <<mode, classifier_vars, clean_vars, sep, fieldnames,
                   line_no, output_exists, output_file, total_processed,
                   removed_count, stats, replies>>

\* What filter_csv returns: it has no return statement.
ReturnOfFilterCsv == "None"

\* filter_csv after filter_instagram_data has returned: the temporary
\* directory is removed, the function ends without a return statement.
FilterCsvReturn ==
    /\ mode = "filter_csv"
    /\ pc = "returned"
    /\ cleaned_file' = <<>>
    /\ stats' = ReturnOfFilterCsv
    /\ pc' = "done"
    /\ UNCHANGED <<mode, classifier_vars, input_exists, input_file, cleaned,
                   recleaned, sep, fieldnames, line_no, output_exists,
                   output_file, total_processed, removed_count, reported,
                   replies>>

\* confirm_process after filter_csv: the summary when stats is a dict, then
\* the document; any exception is answered with a failure message.
ConfirmProcess ==
    /\ mode = "filter_csv"
    /\ pc = "done"
    /\ replies' =
          IF stats = "raised" THEN {"failed"}
          ELSE (IF stats = "dict" THEN {"summary"} ELSE {})
               \cup (IF output_exists THEN {"document"} ELSE {"failed"})
    /\ pc' = "replied"
    /\ UNCHANGED <<mode, classifier_vars, clean_vars, sep, fieldnames,
                   line_no, output_exists, output_file, total_processed,
                   removed_count, reported, stats>>

Next ==
    \/ Preprocess
    \/ FilterOpen
    \/ FilterRow
    \/ FilterEnd
    \/ FilterCsvReturn
    \/ ConfirmProcess

Spec == Init /\ [][Next]_vars

-----------------------------------------------------------------------------
(* Properties of the classifier                                            *)

\* The tokens of the classified input that are both a male exception and a
\* female name.
ExceptionAndFemaleTokens ==
    Parts(username, fullname) \cap MALE_NAMES_EXCEPTIONS \cap FEMALE_NAMES

BusinessTokens == Parts(username, fullname) \cap FEMALE_BUSINESS_KEYWORDS

\* C3 (as stated): when a token of the input is in both the male exception
\* set and the female name set, classify_gender returns 'keep', whatever the
\* other tokens and whatever the word lists contain.
C3_ExceptionAlwaysKeeps ==
    (pc = "classified" /\ ExceptionAndFemaleTokens /= {})
        => classification = "keep"

\* C3 (amended): when a token of the input is in both the male exception set
\* and the female name set and no token of the input is a female business
\* keyword, classify_gender returns 'keep', whatever the other tokens are.
C3_ExceptionKeepsUnlessBusiness ==
    (pc = "classified" /\ ExceptionAndFemaleTokens /= {}
                       /\ BusinessTokens = {})
        => classification = "keep"

\* A classified input with a token in both sets, a second token that is a
\* female name only, and no business keyword.
C3_Witness ==
    /\ pc = "classified"
    /\ ExceptionAndFemaleTokens /= {}
    /\ BusinessTokens = {}
    /\ (Parts(username, fullname) \cap FEMALE_NAMES)
            \ MALE_NAMES_EXCEPTIONS /= {}
    /\ classification = "keep"

\* The plain letter of a stylized letterform, as the table of the
\* specification gives it.
PlainLetter(c) ==
    CASE c = "sc_a" -> "a"
      [] c = "sc_n" -> "n"
      [] OTHER -> c

PlainForm(text) == [i \in 1..Len(text) |-> PlainLetter(text[i])]

HasStylized(text) == \E i \in 1..Len(text) : PlainLetter(text[i]) /= text[i]

\* C10: an input in which letters are replaced by their stylized letterforms
\* is classified as its plain form is; so a stylized variant of a female name
\* is 'female' exactly when the plain name is.
C10_StylizedClassifiesAsPlain ==
    pc = "classified"
        => classification =
               classify_gender(PlainForm(username), PlainForm(fullname))

\* A stylized variant of a name of the female name set, classified 'female'
\* by the name rule (no business keyword, too short for the ending rule).
C10_Witness ==
    /\ pc = "classified"
    /\ HasStylized(username)
    /\ Len(username) <= 3
    /\ PlainForm(LowerText(username)) \in FEMALE_NAMES
    /\ BusinessTokens = {}
    /\ classification = "female"

-----------------------------------------------------------------------------
(* Properties of the pipeline                                              *)

HeaderWritten == output_exists /\ Len(output_file) >= 1
DataRowsWritten == Len(output_file) - 1

\* C1: the counters of the row loop.  total_processed >= 0 and
\* 0 <= removed <= total_processed in every state; between two iterations of
\* the row loop and at its end removed + rows written = total_processed, and
\* the remaining count reported at the end is total_processed - removed, the
\* number of data rows in the output.  (When writerow raises, nothing is
\* reported and the row that raised is counted but not written.)
C1_CountersAgreeWithOutput ==
    /\ total_processed >= 0
    /\ 0 <= removed_count /\ removed_count <= total_processed
    /\ pc = "loop" => removed_count + DataRowsWritten = total_processed
    /\ reported.kind = "stats" =>
          /\ reported.total_processed = total_processed
          /\ reported.removed = removed_count
          /\ reported.remaining = reported.total_processed - reported.removed
          /\ reported.remaining >= 0
          /\ reported.remaining = DataRowsWritten
    /\ reported.kind = "unexpected" =>
          removed_count + DataRowsWritten = total_processed - 1

\* The loop has ended on an input of which one row was removed and one
\* written.
C1_Witness ==
    /\ reported.kind = "stats"
    /\ reported.total_processed = 2
    /\ reported.removed = 1
    /\ reported.remaining = 1
    /\ DataRowsWritten = 1

\* C2: after a successful run filter_csv gives its caller the counts
\* (total_processed, removed, remaining), so that confirm_process sends the
\* summary.
C2_ReturnsFilterStats ==
    /\ (mode = "filter_csv" /\ pc \in {"done", "replied"}
            /\ reported.kind = "stats") => stats = "dict"
    /\ (mode = "filter_csv" /\ pc = "replied" /\ reported.kind = "stats")
            => "summary" \in replies

\* C7: the delimiter filter_csv writes the output with is the delimiter
\* detected on the first line of the raw input, and the output columns are
\* the surviving columns of the cleaned table in their order.
C7_OutputDelimiterIsInputDelimiter ==
    (mode = "filter_csv" /\ HeaderWritten) =>
        /\ sep = detect_csv_separator(input_file)
        /\ fieldnames = cleaned.columns

\* The run has ended in a failure: an error message of
\* filter_instagram_data, or an exception out of filter_csv.
Failed ==
    \/ reported.kind \in {"no_headers", "not_found", "unexpected"}
    \/ stats = "raised"

\* The input has no header row: no line, or a blank first line.
Headerless(file) == file = <<>> \/ file[1] = <<>>

\* C8: an input without a header row is reported as an error and no output
\* file is produced; no failure leaves a partial or empty output file.
C8_NoOutputOnFailure ==
    pc \in {"returned", "done", "replied"} =>
        /\ (input_exists /\ Headerless(input_file)) => Failed
        /\ Failed => ~output_exists

-----------------------------------------------------------------------------
(* Properties of the cleaner                                               *)

\* The table read_csv gives clean_csv for the input file.
InputTable == read_csv(input_file, detect_csv_separator(input_file))

\* Row i (0-based) is a footer candidate, rows follow it, and no row after
\* it in its confirmation window is footer-like or names socialdeck.ai.
StrayCandidate(rows, i) ==
    /\ IsFooterIndicator(Str(rows[i + 1][1]))
    /\ i + 1 < Len(rows)
    /\ \A j \in (i + 1)..(Min(i + 5, Len(rows)) - 1) :
          ~IsFooterConfirmation(Str(rows[j + 1][1]))

\* C4: a stray footer-like row whose confirmation window holds no other
\* footer-like or socialdeck.ai row is not returned by find_footer_start,
\* and clean_csv keeps the rows after it.
C4_StrayRowIsNotFooterStart ==
    (mode = "clean" /\ cleaned.kind = "ok") =>
        \A i \in 0..(Len(InputTable.rows) - 1) :
            StrayCandidate(InputTable.rows, i) =>
                /\ cleaned.footer_start /= i
                /\ Len(cleaned.rows) > i

\* A real data row as C5 describes it: the first column is not empty, not
\* "nan" and holds no footer phrase.
IsRealRow(fields) ==
    /\ fields /= <<>>
    /\ fields[1] \notin {<<>>, <<"nan">>}
    /\ \A k \in 1..Len(footer_patterns) :
          ~ContainsNoCase(fields[1], footer_patterns[k])

\* The input is N real data rows, then the row "Found profiles count: 12",
\* then a row that names socialdeck.ai.
FooterAfterRealRows(file) ==
    /\ Len(file) >= 3
    /\ file[1] = <<"userName", Comma, "fullName">>
    /\ \A k \in 2..(Len(file) - 2) : IsRealRow(SplitLine(file[k], Comma))
    /\ file[Len(file) - 1] = <<"Found profiles count:", " 12">>
    /\ \E i \in 1..Len(file[Len(file)]) :
          <<LowerAtom(file[Len(file)][i]), "socialdeck.ai">> \in Occurs

C9_SecondCleaningSucceeds ==
    (mode = "clean" /\ pc = "recleaned") =>
        /\ recleaned.kind \notin {"ParserError", "EmptyDataError"}
        /\ recleaned.kind = "ok" =>
              /\ Range(recleaned.columns) \cap columns_to_remove = {}
              /\ <<"user_name">> \in Range(recleaned.columns)
              /\ <<"full_name">> \in Range(recleaned.columns)

\* C6: detect_csv_separator answers ',' when the first line has more commas
\* than semicolons, ';' when it has more semicolons, and ',' on a tie.
C6_TieGivesComma ==
    (mode = "clean" /\ cleaned.kind /= "none") =>
        LET first_line == IF input_file = <<>> THEN <<>> ELSE input_file[1]
            commas == Count(first_line, Comma)
            semicolons == Count(first_line, Semicolon)
        IN  /\ commas > semicolons => cleaned.separator = Comma
            /\ semicolons > commas => cleaned.separator = Semicolon
            /\ commas = semicolons => cleaned.separator = Comma

-----------------------------------------------------------------------------
(* The output of filter_instagram_data                                     *)

\* classify_gender(user_name, full_name) of a row of the cleaned table does
\* not answer 'female'.
NotFemale(columns, row) ==
    classify_gender(RowGet(columns, row, <<"user_name">>, <<>>),
                    RowGet(columns, row, <<"full_name">>, <<>>)) /= "female"

\* The header row of the cleaned table followed by its rows that are not
\* classified 'female', in their order, written with its delimiter.
RowsNotFemale ==
    to_csv(cleaned.columns,
           SelectSeq(cleaned.rows, LAMBDA row : NotFemale(cleaned.columns, row)),
           cleaned.separator)

\* C11: when filter_instagram_data has returned, the output is the header
\* row followed by exactly the cleaned rows that classify_gender does not
\* classify 'female', in their order and with their columns in order; the
\* header row is there also when no data row remains.
C11_OutputIsRowsNotFemale ==
    (mode = "filter_csv" /\ cleaned.kind = "ok"
        /\ pc \in {"returned", "done", "replied"}) =>
            /\ HeaderWritten
            /\ output_file = RowsNotFemale

\* C11 on the runs in which filter_instagram_data splits the cleaned file on
\* the delimiter it was written with.
C11_OutputIsRowsNotFemaleSameDelimiter ==
    (mode = "filter_csv" /\ cleaned.kind = "ok"
        /\ pc \in {"returned", "done", "replied"}
        /\ sep = cleaned.separator) =>
            /\ HeaderWritten
            /\ output_file = RowsNotFemale

-----------------------------------------------------------------------------
(* The priority order of classify_gender                                   *)

\* The token set of the classified input.
Tokens == Parts(username, fullname)

\* The combined text "username fullname" is empty or whitespace only.
BlankInput == \A c \in Range(username) \cup Range(fullname) : c = " "

HasFemaleEnding(token) ==
    \E ending \in FEMALE_ENDINGS : EndsWith(token, ending)

\* The answer of the priority list: the first rule that matches decides.
PriorityVerdict ==
    IF BlankInput THEN "keep"
    ELSE IF Tokens \cap FEMALE_BUSINESS_KEYWORDS /= {} THEN "female"
    ELSE IF Tokens \cap MALE_NAMES_EXCEPTIONS /= {} THEN "keep"
    ELSE IF Tokens \cap FEMALE_NAMES /= {} THEN "female"
    ELSE IF \E token \in Tokens : Len(token) > 3 /\ HasFemaleEnding(token)
         THEN "female"
    ELSE "keep"

\* C12: classify_gender answers as the priority list does, first match wins:
\* blank input 'keep'; else a business keyword token 'female' (also with a
\* male exception token); else a male exception token 'keep' (also with a
\* female name or a female ending); else a female name token 'female'; else
\* a token longer than 3 characters with a female ending 'female'; else
\* 'keep'.
C12_PriorityOrder ==
    pc = "classified" => classification = PriorityVerdict

\* An input with a business keyword token and a male exception token,
\* classified 'female'.
C12_Witness ==
    /\ pc = "classified"
    /\ Tokens \cap FEMALE_BUSINESS_KEYWORDS /= {}
    /\ Tokens \cap MALE_NAMES_EXCEPTIONS /= {}
    /\ (Tokens \cap MALE_NAMES_EXCEPTIONS) \ FEMALE_BUSINESS_KEYWORDS /= {}
    /\ classification = "female"

-----------------------------------------------------------------------------
(* The last-resort step of classify_gender                                 *)

\* No token is a business keyword, a male exception or a female name: the
\* input reaches the last-resort step.
ReachesLastResort ==
    /\ ~BlankInput
    /\ Tokens \cap (FEMALE_BUSINESS_KEYWORDS \cup MALE_NAMES_EXCEPTIONS
                        \cup FEMALE_NAMES) = {}

\* The orders a set can be iterated in.
Orders(S) ==
    {q \in [1..Cardinality(S) -> S] : \A x \in S : \E i \in DOMAIN q : q[i] = x}

\* The loops of the last-resort step run over the tokens and the endings
\* in the given orders: the first token longer than 3 characters, not a
\* male exception and with one of the endings returns 'female'.
RECURSIVE LastResortFrom(_, _, _, _, _)
LastResortFrom(parts, endings, male, p, e) ==
    IF p > Len(parts) THEN "keep"
    ELSE IF ~(Len(parts[p]) > 3 /\ parts[p] \notin male) \/ e > Len(endings)
         THEN LastResortFrom(parts, endings, male, p + 1, 1)
    ELSE IF EndsWith(parts[p], endings[e]) THEN "female"
    ELSE LastResortFrom(parts, endings, male, p, e + 1)

\* Two orders of the ending set.
EndingOrders ==
    { << <<"a">>, <<"y", "a">>, <<"i", "a">>, <<"i", "n", "a">>,
         <<"o", "v", "a">>, <<"e", "v", "a">>, <<"s", "k", "a", "y", "a">>,
         <<"i", "v", "n", "a">>, <<"y", "i", "v", "n", "a">>,
         <<"o", "v", "n", "a">> >>,
      << <<"o", "v", "n", "a">>, <<"y", "i", "v", "n", "a">>,
         <<"i", "v", "n", "a">>, <<"s", "k", "a", "y", "a">>,
         <<"e", "v", "a">>, <<"o", "v", "a">>, <<"i", "n", "a">>,
         <<"i", "a">>, <<"y", "a">>, <<"a">> >> }

\* C14: in the last-resort step no token is a male exception, every ending
\* of the ending set ends with 'a', and the step answers 'female' exactly
\* when a token longer than 3 characters ends with 'a', in whatever order
\* the tokens and the endings are iterated.
C14_LastResortIsFinalLetterA ==
    (pc = "classified" /\ ReachesLastResort) =>
        /\ \A token \in Tokens : token \notin MALE_NAMES_EXCEPTIONS
        /\ \A ending \in FEMALE_ENDINGS : EndsWith(ending, <<"a">>)
        /\ classification = "female" <=>
              \E token \in Tokens :
                  Len(token) > 3 /\ token[Len(token)] = "a"
        /\ \A parts \in Orders(Tokens) : \A endings \in EndingOrders :
              /\ Range(endings) = FEMALE_ENDINGS
              /\ LastResortFrom(parts, endings, MALE_NAMES_EXCEPTIONS, 1, 1)
                    = classification

\* The last-resort step has answered 'female' on an input with two tokens,
\* one of them longer than 3 characters and ending with 'a'.
C14_Witness ==
    /\ pc = "classified"
    /\ ReachesLastResort
    /\ Cardinality(Tokens) = 2
    /\ \E token \in Tokens : Len(token) > 3 /\ token[Len(token)] = "a"
    /\ classification = "female"

-----------------------------------------------------------------------------
(* Two source columns of one target                                        *)

\* The positions of the columns of that name.
Places(columns, name) == {c \in 1..Len(columns) : columns[c] = name}

\* The rows of the input table that clean_csv keeps.
SurvivingRows ==
    CleanRows(TruncateAt(InputTable.rows, find_footer_start(InputTable.rows)))

\* Both source columns are in the input header; the cleaned table has one
\* column named target, and it holds the values of the source whose mapping
\* is applied last.
LastMappingWins(first, last, target) ==
    (Places(InputTable.columns, first) /= {}
        /\ Places(InputTable.columns, last) /= {}) =>
            /\ Cardinality(Places(cleaned.columns, target)) = 1
            /\ \A c \in Places(cleaned.columns, target) :
               \A from \in Places(InputTable.columns, last) :
                   /\ Len(cleaned.rows) = Len(SurvivingRows)
                   /\ \A i \in 1..Len(cleaned.rows) :
                         cleaned.rows[i][c] = CleanName(SurvivingRows[i][from])

\* C13: when userName and login (or fullName and name) are both in the
\* input header, the cleaned table has exactly one column of the target
\* name, with the values of the mapping applied last; the header of the
\* cleaned table never holds a column name twice.
C13_OneColumnPerTarget ==
    (mode = "clean" /\ cleaned.kind = "ok") =>
        /\ LastMappingWins(<<"userName">>, <<"login">>, <<"user_name">>)
        /\ LastMappingWins(<<"fullName">>, <<"name">>, <<"full_name">>)
        /\ \A c, k \in 1..Len(cleaned.columns) :
              c /= k => cleaned.columns[c] /= cleaned.columns[k]

====
